---- MODULE Spec2Model ----
(***************************************************************************)
(* State-machine model of the EPUB analyzer (src/app.py and src/app2.py):  *)
(* the segmenter parse_epub_to_pages, the range resolver                   *)
(* update_slider_from_dropdowns, the Streamlit session around them and the *)
(* per-chapter analysis loops summarize_segmented / xray_segmented.        *)
(***************************************************************************)
EXTENDS Integers, Sequences, FiniteSets, TLC

VARIABLES
    variant,                \* "app" (src/app.py) or "app2" (src/app2.py)
    uploaded_file,          \* value of st.file_uploader: NoFile or a file
    pages,                  \* st.session_state.pages
    chapter_map,            \* st.session_state.chapter_map
    book_meta,              \* st.session_state.book_meta
    book_cover,             \* st.session_state.book_cover (app2)
    analysis_result,        \* st.session_state.analysis_result
    current_file_name,      \* st.session_state.current_file_name
    page_slider,            \* st.session_state.page_slider, NoSlider when absent
    start_chapter_select,   \* st.session_state.start_chapter_select
    end_chapter_select,     \* st.session_state.end_chapter_select
    tmp_files,              \* temporary .epub files left on disk
    last_parse,             \* what the last call of parse_epub_to_pages did
    run,                    \* the analysis loop in progress (or idle)
    requests,               \* external requests issued by the last analysis
    in_flight               \* external requests issued and not yet answered

vars == <<variant, uploaded_file, pages, chapter_map, book_meta, book_cover,
          analysis_result, current_file_name, page_slider,
          start_chapter_select, end_chapter_select, tmp_files, last_parse,
          run, requests, in_flight>>

Min(a, b) == IF a < b THEN a ELSE b
Max(a, b) == IF a > b THEN a ELSE b

(***************************************************************************)
(* Text.  A Python str is modelled as a sequence of pieces; a piece        *)
(* [src, from, to] is the slice [from:to] of source text src (the cleaned  *)
(* text of the src-th item of the archive; src = 0 is the one-character    *)
(* text "\n").  Texts are kept in normal form: no empty piece, and two     *)
(* adjacent pieces of the same source that touch are one piece, so equal   *)
(* strings have equal representations.                                     *)
(***************************************************************************)
Piece(s, a, b) == [src |-> s, from |-> a, to |-> b]

RECURSIVE TLen(_)
TLen(t) == IF t = <<>> THEN 0
           ELSE (Head(t).to - Head(t).from) + TLen(Tail(t))

\* a + b on Python strings
TCat(a, b) ==
    IF a = <<>> THEN b
    ELSE IF b = <<>> THEN a
    ELSE LET x == a[Len(a)]
             y == b[1]
         IN IF x.src = y.src /\ x.src # 0 /\ x.to = y.from
            THEN SubSeq(a, 1, Len(a) - 1) \o <<Piece(x.src, x.from, y.to)>>
                 \o Tail(b)
            ELSE a \o b

\* t[:n] on a Python string, n >= 0
RECURSIVE TTake(_, _)
TTake(t, n) ==
    IF t = <<>> \/ n <= 0 THEN <<>>
    ELSE LET p == Head(t)
             l == p.to - p.from
         IN IF l <= n THEN <<p>> \o TTake(Tail(t), n - l)
            ELSE <<Piece(p.src, p.from, p.from + n)>>

\* t[n:] on a Python string, n >= 0
RECURSIVE TDrop(_, _)
TDrop(t, n) ==
    IF t = <<>> \/ n <= 0 THEN t
    ELSE LET p == Head(t)
             l == p.to - p.from
         IN IF l <= n THEN TDrop(Tail(t), n - l)
            ELSE <<Piece(p.src, p.from + n, p.to)>> \o Tail(t)

\* t[i:j] on a Python string, 0 <= i
TSlice(t, i, j) == TTake(TDrop(t, i), j - i)

NewLine == <<Piece(0, 0, 1)>>

\* sep.join(list) for sep = "\n"
RECURSIVE JoinNL(_)
JoinNL(list) ==
    IF list = <<>> THEN <<>>
    ELSE IF Len(list) = 1 THEN list[1]
    ELSE TCat(TCat(list[1], NewLine), JoinNL(Tail(list)))

\* "".join(list)
RECURSIVE TConcat(_)
TConcat(list) == IF list = <<>> THEN <<>>
                 ELSE TCat(Head(list), TConcat(Tail(list)))

(***************************************************************************)
(* Names of archive items are sequences of characters, so that the regular *)
(* expression of the junk filter searches them as the code does.           *)
(***************************************************************************)
UpperCase == <<"A","B","C","D","E","F","G","H","I","J","K","L","M",
               "N","O","P","Q","R","S","T","U","V","W","X","Y","Z">>
LowerCase == <<"a","b","c","d","e","f","g","h","i","j","k","l","m",
               "n","o","p","q","r","s","t","u","v","w","x","y","z">>

UpperSet == {UpperCase[i] : i \in 1..26}

LowerChar(c) ==
    IF c \in UpperSet
    THEN LowerCase[CHOOSE i \in 1..26 : UpperCase[i] = c]
    ELSE c

\* str.lower()
Lower(s) == [i \in 1..Len(s) |-> LowerChar(s[i])]

\* pat in s
Contains(s, pat) ==
    \E i \in 0..(Len(s) - Len(pat)) :
        \A j \in 1..Len(pat) : s[i + j] = pat[j]

JunkWords == { <<"c","o","v","e","r">>,
               <<"c","o","p","y","r","i","g","h","t">>,
               <<"d","e","d","i","c","a","t","i","o","n">>,
               <<"a","c","k">> }

\* junk_pattern.search(name): re.compile(r'(cover|copyright|dedication|ack)',
\* re.IGNORECASE)
junk_pattern(name) ==
    LET lowered == Lower(name) IN \E w \in JunkWords : Contains(lowered, w)

(***************************************************************************)
(* Archive items (ebooklib items after epub.read_epub).  An item has a     *)
(* type, a name, the texts of its h1..h3 elements in document order        *)
(* (sequences of characters), the length of soup.get_text(), the period at *)
(* which blanks occur in that text, and the other marks of a title that    *)
(* its markup carries.                                                     *)
(***************************************************************************)
Chapter1 == <<"C","h","a","p","t","e","r"," ","1">>
Chapter2 == <<"C","h","a","p","t","e","r"," ","2">>
CoverHeading == <<"C","o","v","e","r">>
Section == <<"S","e","c","t","i","o","n">>

cover_xhtml == <<"c","o","v","e","r",".","x","h","t","m","l">>
ch1_xhtml == <<"c","h","1",".","x","h","t","m","l">>
ch2_xhtml == <<"c","h","2",".","x","h","t","m","l">>
Cover_jpg == <<"C","o","v","e","r",".","j","p","g">>

\* A document whose cleaned text is `len` characters of words: the character
\* at position pos (0-based) is a blank when pos % period = period - 1 and a
\* letter otherwise.
\* classed: the texts of the elements whose class attribute holds "title",
\* "chapter" or "head", in document order; first_line: the first non-blank
\* line of the cleaned text.
DocT(name, headings, classed, first_line, len, period) ==
    [type |-> "document", name |-> name, headings |-> headings, len |-> len,
     period |-> period, classed |-> classed, first_line |-> first_line]
DocW(name, headings, len, period) ==
    DocT(name, headings, <<>>, <<>>, len, period)
\* words of six letters
Doc(name, headings, len) == DocW(name, headings, len, 7)
Image(name) ==
    [type |-> "image", name |-> name, headings |-> <<>>, len |-> 0,
     period |-> 1, classed |-> <<>>, first_line |-> <<>>]

WhiteSpace == {" ", "\t", "\n", "\r"}

\* str.strip()
RECURSIVE LStrip(_)
LStrip(s) == IF s # <<>> /\ Head(s) \in WhiteSpace THEN LStrip(Tail(s)) ELSE s
RECURSIVE RStrip(_)
RStrip(s) == IF s # <<>> /\ s[Len(s)] \in WhiteSpace
             THEN RStrip(SubSeq(s, 1, Len(s) - 1)) ELSE s
Strip(s) == RStrip(LStrip(s))

TitleMax == 60

\* extract_title(soup, filename): the first h1/h2/h3, stripped, cut to 60
\* characters; the literal "Section" when the item has none.
extract_title(item) ==
    IF item.headings # <<>>
    THEN LET t == Strip(item.headings[1])
         IN SubSeq(t, 1, Min(TitleMax, Len(t)))
    ELSE Section

\* soup.get_text() of the k-th item of the archive
get_text(item, k) == IF item.len = 0 THEN <<>> ELSE <<Piece(k, 0, item.len)>>

\* the character at position pos of source text src is whitespace
is_space(items, src, pos) ==
    src = 0 \/ pos % items[src].period = items[src].period - 1

\* len(t.split()) for a text t over the items' texts: the number of maximal
\* runs of characters that are not whitespace.  A run starts at a character
\* that is not whitespace and follows a whitespace character or nothing;
\* inside a piece those are the positions that are multiples of the period.
\* after_space: the character before t is whitespace, or t starts the string.
RECURSIVE split_len(_, _, _)
split_len(t, items, after_space) ==
    IF t = <<>> THEN 0
    ELSE LET p == Head(t)
             first == IF after_space /\ ~is_space(items, p.src, p.from)
                      THEN 1 ELSE 0
             inner == IF p.src = 0 THEN 0
                      ELSE ((p.to - 1) \div items[p.src].period)
                           - (p.from \div items[p.src].period)
         IN first + inner
            + split_len(Tail(t), items, is_space(items, p.src, p.to - 1))

\* total_words = sum([len(p['content'].split()) for p in st.session_state.pages])
RECURSIVE total_words(_, _)
total_words(page_list, items) ==
    IF page_list = <<>> THEN 0
    ELSE split_len(Head(page_list).content, items, TRUE)
         + total_words(Tail(page_list), items)

MinTextLen == 200
chunk_size == 1500

\* a page id that counts the pages before it (0-based)
next_page_id_zero_based(all_pages) == Len(all_pages)

\* 'id': len(all_pages) + 1
next_page_id(all_pages) == Len(all_pages) + 1

\* a chunk that stops one character early
chunk_at_short(raw_text, i) == TSlice(raw_text, i, i + chunk_size - 1)

\* chunk_text = raw_text[i : i + chunk_size]
chunk_at(raw_text, i) == TSlice(raw_text, i, i + chunk_size)

\* for i in range(0, len(raw_text), chunk_size): all_pages.append({...})
RECURSIVE chunk_loop(_, _, _, _)
chunk_loop(raw_text, i, chapter_title, all_pages) ==
    IF i >= TLen(raw_text) THEN all_pages
    ELSE chunk_loop(raw_text, i + chunk_size, chapter_title,
            Append(all_pages,
                   [chapter |-> chapter_title,
                    content |-> chunk_at(raw_text, i),
                    id |-> next_page_id(all_pages)]))

\* an index that gets an entry for every item that is segmented
chapter_entry_per_item(all_pages, cmap, chapter_title) ==
    Append(cmap, [title |-> chapter_title, start_page |-> Len(all_pages) + 1])

\* if not all_pages or all_pages[-1]['chapter'] != chapter_title:
\*     chapter_map.append({"title": ..., "start_page": len(all_pages) + 1})
chapter_entry(all_pages, cmap, chapter_title) ==
    IF all_pages = <<>> \/ all_pages[Len(all_pages)].chapter # chapter_title
    THEN Append(cmap,
                [title |-> chapter_title, start_page |-> Len(all_pages) + 1])
    ELSE cmap

\* a filter without the minimum-length test
skipped_junk_only(item, k) == junk_pattern(item.name)

\* the item is skipped by one of the two `continue` statements
skipped(item, k) ==
    \/ junk_pattern(item.name)
    \/ TLen(get_text(item, k)) < MinTextLen

NoFail == [at |-> "none", k |-> 0]
FailWrite == [at |-> "write", k |-> 0]
FailRead == [at |-> "read", k |-> 0]
FailCover == [at |-> "cover", k |-> 0]
FailItem(k) == [at |-> "item", k |-> k]

\* for item in book.get_items(): ...   An exception raised while the k-th
\* item is handled (fail = FailItem(k)) leaves the loop with the pages
\* accumulated so far.
RECURSIVE segment_loop(_, _, _, _, _)
segment_loop(items, k, all_pages, cmap, fail) ==
    IF k > Len(items)
    THEN [raised |-> FALSE, all_pages |-> all_pages, chapter_map |-> cmap]
    ELSE IF fail = FailItem(k)
    THEN [raised |-> TRUE, all_pages |-> all_pages, chapter_map |-> cmap]
    ELSE LET item == items[k] IN
         IF item.type # "document" \/ skipped(item, k)
         THEN segment_loop(items, k + 1, all_pages, cmap, fail)
         ELSE LET raw_text == get_text(item, k)
                  chapter_title == extract_title(item)
              IN segment_loop(items, k + 1,
                     chunk_loop(raw_text, 0, chapter_title, all_pages),
                     chapter_entry(all_pages, cmap, chapter_title),
                     fail)

\* get_metadata(book)
get_metadata(file) ==
    [title |-> IF file.dc_title # <<>> THEN file.dc_title[1] ELSE "Unknown Title",
     author |-> IF file.dc_creator # <<>> THEN file.dc_creator[1] ELSE "Unknown Author"]

\* app2's cover extraction: the first image item whose lowered name contains
\* 'cover' or 'default' (its position in the archive; 0 is None).  An
\* exception inside it is swallowed by its own `except: pass`.
RECURSIVE cover_scan(_, _)
cover_scan(items, k) ==
    IF k > Len(items) THEN 0
    ELSE IF /\ items[k].type = "image"
            /\ \/ Contains(Lower(items[k].name), <<"c","o","v","e","r">>)
               \/ Contains(Lower(items[k].name), <<"d","e","f","a","u","l","t">>)
    THEN k
    ELSE cover_scan(items, k + 1)

cover_extraction(v, file, fail) ==
    IF v = "app2" /\ fail # FailCover THEN cover_scan(file.items, 1) ELSE 0

\* a handler that hands back what was accumulated before the exception
on_parse_error_partial(all_pages, cmap) ==
    [pages |-> all_pages, chapter_map |-> cmap,
     title |-> "Unknown", author |-> "Unknown", cover |-> 0]

\* except Exception as e: ... return [], [], "Unknown", "Unknown"(, None),
\* whatever all_pages and chapter_map hold when the exception arrives
on_parse_error(all_pages, cmap) ==
    [pages |-> <<>>, chapter_map |-> <<>>,
     title |-> "Unknown", author |-> "Unknown", cover |-> 0]

\* the temporary file is still on disk when parse_epub_to_pages is left:
\* NamedTemporaryFile(delete=False) is written outside the try statement, so
\* only an exit through the try statement reaches the finally clause.
tmp_left_behind(fail) == fail = FailWrite

\* the ret field of a call that was left by an exception
NoReturn == [pages |-> <<>>, chapter_map |-> <<>>, title |-> "", author |-> "",
             cover |-> 0]

\* parse_epub_to_pages(uploaded_file) in variant v, with an exception raised
\* at the point `fail`.  raised: the exception leaves the function.
parse_epub_to_pages(v, file, fail) ==
    LET loop == segment_loop(file.items, 1, <<>>, <<>>, fail)
        meta == get_metadata(file)
        ok == [pages |-> loop.all_pages, chapter_map |-> loop.chapter_map,
               title |-> meta.title, author |-> meta.author,
               cover |-> cover_extraction(v, file, fail)]
        caught == fail = FailRead \/ loop.raised
        partial == IF fail = FailRead THEN <<>> ELSE loop.all_pages
        partial_map == IF fail = FailRead THEN <<>> ELSE loop.chapter_map
    IN [file |-> file,
        fail |-> fail,
        raised |-> (fail = FailWrite),
        partial |-> IF caught THEN partial ELSE <<>>,
        ret |-> IF fail = FailWrite THEN NoReturn
                ELSE IF caught THEN on_parse_error(partial, partial_map)
                ELSE ok,
        tmp_left |-> tmp_left_behind(fail)]

(***************************************************************************)
(* The range resolver.                                                     *)
(***************************************************************************)
\* [c['title'] for c in st.session_state.chapter_map]
chapter_titles(cmap) == [i \in 1..Len(cmap) |-> cmap[i].title]

InList(list, x) == \E i \in 1..Len(list) : list[i] = x

\* list.index(x), 1-based: the first position holding x
IndexOf(list, x) == CHOOSE i \in 1..Len(list) :
                        /\ list[i] = x
                        /\ \A j \in 1..(i - 1) : list[j] # x

\* a resolver that keeps the end chapter as selected
clamp_end_idx_missing(start_idx, end_idx) == end_idx

\* if end_idx < start_idx: end_idx = start_idx
clamp_end_idx(start_idx, end_idx) ==
    IF end_idx < start_idx THEN start_idx ELSE end_idx

\* if end_page < start_page: end_page = start_page   (src/app.py only)
guard_end_page(v, start_page, end_page) ==
    IF v = "app" /\ end_page < start_page THEN start_page ELSE end_page

\* the end page of the chapter at position end_idx
chapter_end_page(cmap, npages, end_idx) ==
    IF end_idx < Len(cmap) THEN cmap[end_idx + 1].start_page - 1 ELSE npages

\* a resolver that falls back to the first page when a title is not found
update_slider_fallback(v, cmap, npages, start_title, end_title) ==
    LET titles == chapter_titles(cmap) IN
    IF ~InList(titles, start_title) \/ ~InList(titles, end_title)
    THEN [found |-> TRUE, range |-> <<1, 1>>]
    ELSE LET start_idx == IndexOf(titles, start_title)
             end_idx == clamp_end_idx(start_idx, IndexOf(titles, end_title))
             start_page == cmap[start_idx].start_page
             end_page == chapter_end_page(cmap, npages, end_idx)
         IN [found |-> TRUE,
             range |-> <<start_page, guard_end_page(v, start_page, end_page)>>]

\* update_slider_from_dropdowns(): found = FALSE is the ValueError return;
\* otherwise range is the value assigned to st.session_state.page_slider.
update_slider_from_dropdowns(v, cmap, npages, start_title, end_title) ==
    LET titles == chapter_titles(cmap) IN
    IF ~InList(titles, start_title) \/ ~InList(titles, end_title)
    THEN [found |-> FALSE, range |-> <<>>]
    ELSE LET start_idx == IndexOf(titles, start_title)
             end_idx == clamp_end_idx(start_idx, IndexOf(titles, end_title))
             start_page == cmap[start_idx].start_page
             end_page == chapter_end_page(cmap, npages, end_idx)
         IN [found |-> TRUE,
             range |-> <<start_page, guard_end_page(v, start_page, end_page)>>]

(***************************************************************************)
(* The Streamlit session.                                                  *)
(***************************************************************************)
NoFile == [name |-> "", items |-> <<>>, dc_title |-> <<>>, dc_creator |-> <<>>]
NoSlider == <<>>
NoneResult == [type |-> "None", text |-> <<>>, sel |-> <<>>]
NoMeta == [title |-> "", author |-> ""]
\* a selectbox key that is not in st.session_state
Unset == [set |-> FALSE, title |-> <<>>, pick |-> 0]
\* a selectbox value: the title, and the position of the option the user
\* (or the index= default) chose; pick = 0 for a value left over from an
\* earlier list of options
Selected(title, pick) == [set |-> TRUE, title |-> title, pick |-> pick]
NoParse == [file |-> NoFile, fail |-> [at |-> "never", k |-> 0],
            raised |-> FALSE, partial |-> <<>>,
            ret |-> NoReturn,
            tmp_left |-> FALSE]
Idle == [pc |-> "idle", type |-> "None", groups |-> <<>>, idx |-> 0,
         full |-> <<>>, sel |-> <<>>]

SliderDefault == 10

\* if "page_slider" not in st.session_state:
\*     st.session_state.page_slider = (1, min(10, total_pages))
default_slider(total_pages) == <<1, Min(SliderDefault, total_pages)>>

\* def clear_results(): st.session_state.analysis_result = None
clear_results == NoneResult

\* st.selectbox(options=chapter_titles, index=default, key=...): the value the
\* key holds after the widget is drawn.  A value that the options no longer
\* offer is either replaced by the default or left as it is (keep).
render_select(value, titles, default, options_changed, keep) ==
    IF ~value.set THEN Selected(titles[default], default)
    ELSE IF options_changed
    THEN IF ~keep THEN Selected(titles[default], default)
         ELSE IF InList(titles, value.title)
         THEN Selected(value.title, IndexOf(titles, value.title))
         ELSE Selected(value.title, 0)
    ELSE value

\* The script body below st.file_uploader, run with `file` uploaded:
\* new-file detection, parsing when the session holds no pages (r is what
\* parse_epub_to_pages does then), and the widgets that write
\* st.session_state.  keep decides what becomes of selectbox values whose
\* options changed or whose widget is not drawn.
ScriptBody(file, fail, keep, r) ==
    LET newf == current_file_name # file.name
        pages1 == IF newf THEN <<>> ELSE pages
        cmap1 == IF newf THEN <<>> ELSE chapter_map
        result1 == IF newf THEN NoneResult ELSE analysis_result
        cover1 == IF newf /\ variant = "app2" THEN 0 ELSE book_cover
        slider1 == IF newf THEN NoSlider ELSE page_slider
        parse == pages1 = <<>>
        stored == parse /\ ~r.raised
        pages2 == IF stored THEN r.ret.pages ELSE pages1
        cmap2 == IF stored THEN r.ret.chapter_map ELSE cmap1
        drawn == pages2 # <<>> /\ ~(parse /\ r.raised)
        titles == chapter_titles(cmap2)
    IN /\ ~parse => fail = NoFail
       /\ ~(parse /\ (start_chapter_select.set \/ end_chapter_select.set)) => keep
       /\ current_file_name' = file.name
       /\ pages' = pages2
       /\ chapter_map' = cmap2
       /\ analysis_result' = result1
       /\ book_meta' = IF stored
                       THEN [title |-> r.ret.title, author |-> r.ret.author]
                       ELSE book_meta
       /\ book_cover' = IF stored /\ variant = "app2" THEN r.ret.cover ELSE cover1
       /\ page_slider' = IF drawn /\ slider1 = NoSlider
                         THEN default_slider(Len(pages2)) ELSE slider1
       /\ start_chapter_select' =
            IF drawn THEN render_select(start_chapter_select, titles, 1, parse, keep)
            ELSE IF keep THEN start_chapter_select ELSE Unset
       /\ end_chapter_select' =
            IF drawn
            THEN render_select(end_chapter_select, titles, Len(titles), parse, keep)
            ELSE IF keep THEN end_chapter_select ELSE Unset
       /\ tmp_files' = tmp_files + (IF parse /\ r.tmp_left THEN 1 ELSE 0)
       /\ last_parse' = IF parse THEN r ELSE last_parse

\* pages, chap_map, title, author(, cover) = parse_epub_to_pages(uploaded_file)
\* is evaluated once per run of the script.
ScriptRun(file, fail, keep) ==
    \E r \in {parse_epub_to_pages(variant, file, fail)} :
        ScriptBody(file, fail, keep, r)

\* the points of parse_epub_to_pages at which an exception can be raised
FailPoints(v, file) ==
    {NoFail, FailWrite, FailRead}
    \cup (IF v = "app2" THEN {FailCover} ELSE {})
    \cup {FailItem(k) : k \in 1..Len(file.items)}

MaxLeaked == 1

Init ==
    /\ variant \in {"app", "app2"}
    /\ uploaded_file = NoFile
    /\ pages = <<>>
    /\ chapter_map = <<>>
    /\ book_meta = NoMeta
    /\ book_cover = 0
    /\ analysis_result = NoneResult
    /\ current_file_name = ""
    /\ page_slider = NoSlider
    /\ start_chapter_select = Unset
    /\ end_chapter_select = Unset
    /\ tmp_files = 0
    /\ last_parse = NoParse
    /\ run = Idle
    /\ requests = <<>>
    /\ in_flight = {}

\* The user puts a file of the library lib into the uploader.
Upload(lib, fails) ==
    /\ run.pc = "idle"
    /\ \E file \in lib, keep \in BOOLEAN :
         \E fail \in FailPoints(variant, file) \cap fails :
            /\ file # uploaded_file
            /\ fail = FailWrite => tmp_files < MaxLeaked
            /\ uploaded_file' = file
            /\ ScriptRun(file, fail, keep)
    /\ UNCHANGED <<variant, run, requests, in_flight>>

\* Any interaction that reruns the script while the session holds no pages
\* (the earlier parse failed or produced nothing): the file is parsed again.
Rerun(fails) ==
    /\ run.pc = "idle"
    /\ uploaded_file # NoFile
    /\ pages = <<>>
    /\ \E keep \in BOOLEAN :
         \E fail \in FailPoints(variant, uploaded_file) \cap fails :
            /\ fail = FailWrite => tmp_files < MaxLeaked
            /\ ScriptRun(uploaded_file, fail, keep)
    /\ UNCHANGED <<variant, uploaded_file, run, requests, in_flight>>

\* The user clears the uploader: `if uploaded_file:` skips the whole body, no
\* widget below it is drawn.  st.session_state either keeps the keys of the
\* widgets that were not drawn or drops them (drop).
RemoveFile ==
    /\ run.pc = "idle"
    /\ uploaded_file # NoFile
    /\ uploaded_file' = NoFile
    /\ \E drop \in BOOLEAN :
         IF drop
         THEN /\ page_slider' = NoSlider
              /\ start_chapter_select' = Unset
              /\ end_chapter_select' = Unset
         ELSE UNCHANGED <<page_slider, start_chapter_select, end_chapter_select>>
    /\ UNCHANGED <<variant, pages, chapter_map, book_meta, book_cover,
                   analysis_result, current_file_name, tmp_files, last_parse,
                   run, requests, in_flight>>

\* the widgets of the scope selectors are on screen
Drawn == uploaded_file # NoFile /\ pages # <<>> /\ run.pc = "idle"

\* The user picks the i-th option of a chapter selectbox; its on_change
\* callback is update_slider_from_dropdowns.
DropdownChange ==
    /\ Drawn
    /\ \E which \in {"start", "end"}, i \in 1..Len(chapter_map) :
         LET value == Selected(chapter_map[i].title, i)
             start == IF which = "start" THEN value ELSE start_chapter_select
             end == IF which = "end" THEN value ELSE end_chapter_select
             res == update_slider_from_dropdowns(variant, chapter_map,
                        Len(pages), start.title, end.title)
         IN /\ value # (IF which = "start" THEN start_chapter_select
                        ELSE end_chapter_select)
            /\ start_chapter_select' = start
            /\ end_chapter_select' = end
            /\ IF res.found
               THEN /\ page_slider' = res.range
                    /\ analysis_result' = clear_results
               ELSE UNCHANGED <<page_slider, analysis_result>>
    /\ UNCHANGED <<variant, uploaded_file, pages, chapter_map, book_meta,
                   book_cover, current_file_name, tmp_files, last_parse, run,
                   requests, in_flight>>

\* The user moves the range slider (min_value=1, max_value=total_pages); its
\* on_change callback is clear_results.
SliderChange ==
    /\ Drawn
    /\ \E s \in 1..Len(pages), e \in 1..Len(pages) :
         /\ s <= e
         /\ <<s, e>> # page_slider
         /\ page_slider' = <<s, e>>
    /\ analysis_result' = clear_results
    /\ UNCHANGED <<variant, uploaded_file, pages, chapter_map, book_meta,
                   book_cover, current_file_name, start_chapter_select,
                   end_chapter_select, tmp_files, last_parse, run, requests,
                   in_flight>>

(***************************************************************************)
(* The analysis orchestrator: summarize_segmented and xray_segmented.      *)
(***************************************************************************)
PromptCap == 30000

\* chapter_dict = defaultdict(list)
\* for p in selected_pages: chapter_dict[p['chapter']].append(p['content'])
\* A dict keeps its keys in insertion order: a sequence of groups.
RECURSIVE group_pages(_, _)
group_pages(selected_pages, chapter_dict) ==
    IF selected_pages = <<>> THEN chapter_dict
    ELSE LET p == Head(selected_pages)
             keys == [i \in 1..Len(chapter_dict) |-> chapter_dict[i].title]
         IN group_pages(Tail(selected_pages),
              IF InList(keys, p.chapter)
              THEN [chapter_dict EXCEPT ![IndexOf(keys, p.chapter)].content_list =
                                            Append(@, p.content)]
              ELSE Append(chapter_dict,
                          [title |-> p.chapter, content_list |-> <<p.content>>]))

\* chap_text = "\n".join(content_list); the prompt holds chap_text[:30000]
prompt_text(content_list) == TTake(JoinNL(content_list), PromptCap)

\* the request sent to client.chat.completions.create for the group at idx
request_for(r, idx) ==
    [idx |-> idx,
     type |-> r.type,
     chap_title |-> r.groups[idx].title,
     text |-> prompt_text(r.groups[idx].content_list)]

\* the text added to the report for one group: the completion under the
\* header of the analysis type, or the error marker of the except clause
report_section(v, type, chap_title, idx, ok) ==
    IF ok
    THEN [header |-> IF type = "Recap" THEN "### "
                     ELSE IF v = "app" THEN "## X "
                     ELSE "## X X-Ray: ",
          title |-> chap_title,
          body |-> "completion", of |-> idx]
    ELSE [header |-> "### ", title |-> chap_title, body |-> "[Error]", of |-> idx]

\* an except clause that records the error and leaves the loop
on_request_error_abort(v, r) ==
    [r EXCEPT !.full = Append(@, report_section(v, r.type, r.groups[r.idx].title,
                                                r.idx, FALSE)),
              !.idx = Len(r.groups) + 1]

\* what the except clause of the request loop does with the report
on_request_error(v, r) ==
    [r EXCEPT !.full = Append(@, report_section(v, r.type, r.groups[r.idx].title,
                                                r.idx, FALSE)),
              !.idx = @ + 1]

\* The user clicks "Story Recap" or "X-Ray Analysis".
ClickAnalysis ==
    /\ Drawn
    /\ \E type \in {"Recap", "X-Ray"}, api_key_input \in {"", "nvapi-1"} :
         IF api_key_input = ""
         THEN UNCHANGED <<analysis_result, run, requests, in_flight>>
         ELSE /\ analysis_result' = NoneResult
              /\ run' = [pc |-> "loop", type |-> type,
                         groups |-> group_pages(SubSeq(pages, page_slider[1],
                                                       page_slider[2]), <<>>),
                         idx |-> 1, full |-> <<>>, sel |-> page_slider]
              /\ requests' = <<>>
              /\ in_flight' = {}
    /\ UNCHANGED <<variant, uploaded_file, pages, chapter_map, book_meta,
                   book_cover, current_file_name, page_slider,
                   start_chapter_select, end_chapter_select, tmp_files,
                   last_parse>>

\* a loop that sends the requests of all remaining groups at once
next_requests_all(r, outstanding) ==
    IF r.pc = "loop" /\ r.idx <= Len(r.groups) /\ outstanding = {}
    THEN r.idx..Len(r.groups) ELSE {}

\* the groups for which the loop issues a request now
next_requests(r, outstanding) ==
    IF r.pc = "loop" /\ r.idx <= Len(r.groups) /\ outstanding = {}
    THEN {r.idx} ELSE {}

\* client.chat.completions.create(...) is called for the next group
IssueRequest ==
    /\ next_requests(run, in_flight) # {}
    /\ LET ids == next_requests(run, in_flight)
           RECURSIVE log(_, _)
           log(l, i) == IF i > Len(run.groups) THEN l
                        ELSE log(IF i \in ids THEN Append(l, request_for(run, i))
                                 ELSE l, i + 1)
       IN /\ requests' = log(requests, 1)
          /\ in_flight' = in_flight \cup ids
    /\ UNCHANGED <<variant, uploaded_file, pages, chapter_map, book_meta,
                   book_cover, analysis_result, current_file_name, page_slider,
                   start_chapter_select, end_chapter_select, tmp_files,
                   last_parse, run>>

\* The call returns a completion (ok) or raises.
Respond ==
    /\ run.pc = "loop"
    /\ run.idx \in in_flight
    /\ \E ok \in BOOLEAN :
         run' = IF ok
                THEN [run EXCEPT !.full = Append(@, report_section(variant,
                                     run.type, run.groups[run.idx].title,
                                     run.idx, TRUE)),
                                 !.idx = @ + 1]
                ELSE on_request_error(variant, run)
    /\ in_flight' = in_flight \ {run.idx}
    /\ UNCHANGED <<variant, uploaded_file, pages, chapter_map, book_meta,
                   book_cover, analysis_result, current_file_name, page_slider,
                   start_chapter_select, end_chapter_select, tmp_files,
                   last_parse, requests>>

\* the loop is over and every request has been answered
LoopDone == run.pc = "loop" /\ run.idx > Len(run.groups) /\ in_flight = {}

\* return full_summary; st.session_state.analysis_result = {"type", "text"}
FinishAnalysis ==
    /\ LoopDone
    /\ analysis_result' = [type |-> run.type, text |-> run.full, sel |-> run.sel]
    /\ run' = Idle
    /\ requests' = <<>>
    /\ UNCHANGED <<variant, uploaded_file, pages, chapter_map, book_meta,
                   book_cover, current_file_name, page_slider,
                   start_chapter_select, end_chapter_select, tmp_files,
                   last_parse, in_flight>>

(***************************************************************************)
(* Inputs.                                                                 *)
(***************************************************************************)
File(name, items, meta) ==
    [name |-> name, items |-> items, dc_title |-> meta[1], dc_creator |-> meta[2]]

Dune == << <<"Dune">>, <<"Frank Herbert">> >>
Anonymous == << <<>>, <<>> >>

SeqsUpTo(S, n) == UNION {[1..m -> S] : m \in 0..n}

\* Session library: three files, two of them under the same name; the first
\* repeats a chapter title after another chapter.
SessFiles ==
    { File("a.epub", <<Doc(ch1_xhtml, <<Chapter1>>, 200),
                       Doc(ch2_xhtml, <<Chapter2>>, 1600),
                       Doc(ch1_xhtml, <<Chapter1>>, 200)>>, Dune),
      File("a.epub", <<Doc(ch2_xhtml, <<Chapter2>>, 200),
                       Doc(ch1_xhtml, <<Chapter1>>, 200)>>, Dune),
      File("b.epub", <<Image(Cover_jpg),
                       Doc(ch1_xhtml, <<>>, 1600)>>, Anonymous) }

SessFails == {NoFail, FailWrite, FailRead}

Next ==
    \/ Upload(SessFiles, SessFails)
    \/ Rerun(SessFails)
    \/ RemoveFile
    \/ DropdownChange
    \/ SliderChange
    \/ ClickAnalysis
    \/ IssueRequest
    \/ Respond
    \/ FinishAnalysis

Spec == Init /\ [][Next]_vars

(***************************************************************************)
(* Segmentation alone: one upload into a fresh session, of any archive of  *)
(* at most MaxItems items, with an exception at any point; the script is   *)
(* rerun (and the file parsed again) while the session holds no pages.     *)
(***************************************************************************)
MaxItems == 3

SegItems ==
    { Doc(cover_xhtml, <<CoverHeading>>, 2000),
      Doc(ch1_xhtml, <<Chapter1>>, 2000),
      Doc(ch2_xhtml, <<Chapter2>>, 0),
      Doc(ch2_xhtml, <<Chapter2>>, 200),
      DocW(ch1_xhtml, <<>>, 3000, 6),
      Image(Cover_jpg) }

SegFiles ==
    { File("book.epub", items, meta) :
        items \in SeqsUpTo(SegItems, MaxItems), meta \in {Dune, Anonymous} }

AnyFail == {NoFail, FailWrite, FailRead, FailCover}
           \cup {FailItem(k) : k \in 1..MaxItems}

FirstUpload ==
    /\ uploaded_file = NoFile
    /\ current_file_name = ""
    /\ Upload(SegFiles, AnyFail)

SegNext ==
    \/ FirstUpload
    \/ Rerun(AnyFail)

SegSpec == Init /\ [][SegNext]_vars

(***************************************************************************)
(* The orchestrator alone: a session that holds a parsed file, any page    *)
(* range selected, and the analysis buttons.                               *)
(***************************************************************************)
OrchFiles ==
    { File("long.epub", <<Doc(ch1_xhtml, <<Chapter1>>, 30500),
                          Doc(ch2_xhtml, <<Chapter2>>, 200),
                          Doc(ch1_xhtml, <<Chapter1>>, 200)>>, Dune),
      File("short.epub", <<Doc(ch2_xhtml, <<Chapter2>>, 1600),
                           Doc(ch1_xhtml, <<Chapter1>>, 200),
                           Doc(ch1_xhtml, <<>>, 200)>>, Anonymous) }

OrchInit ==
    /\ variant \in {"app", "app2"}
    /\ uploaded_file \in OrchFiles
    /\ LET r == parse_epub_to_pages(variant, uploaded_file, NoFail)
           titles == chapter_titles(r.ret.chapter_map)
       IN /\ pages = r.ret.pages
          /\ chapter_map = r.ret.chapter_map
          /\ book_meta = [title |-> r.ret.title, author |-> r.ret.author]
          /\ book_cover = r.ret.cover
          /\ last_parse = r
          /\ start_chapter_select = Selected(titles[1], 1)
          /\ end_chapter_select = Selected(titles[Len(titles)], Len(titles))
          /\ page_slider \in {<<s, e>> : s \in 1..Len(r.ret.pages),
                                         e \in 1..Len(r.ret.pages)}
          /\ page_slider[1] <= page_slider[2]
    /\ analysis_result = NoneResult
    /\ current_file_name = uploaded_file.name
    /\ tmp_files = 0
    /\ run = Idle
    /\ requests = <<>>
    /\ in_flight = {}

OrchNext ==
    \/ ClickAnalysis
    \/ IssueRequest
    \/ Respond
    \/ FinishAnalysis

OrchSpec == OrchInit /\ [][OrchNext]_vars

(***************************************************************************)
(* The junk filter alone: one upload of an archive of a single document    *)
(* item, its name drawn from directory prefixes, stems and spellings.      *)
(***************************************************************************)
UpperChar(c) ==
    IF \E i \in 1..26 : LowerCase[i] = c
    THEN UpperCase[CHOOSE i \in 1..26 : LowerCase[i] = c]
    ELSE c

\* str.upper() and str.capitalize() of a lower-case name
Upper(s) == [i \in 1..Len(s) |-> UpperChar(s[i])]
Capitalize(s) == [i \in 1..Len(s) |-> IF i = 1 THEN UpperChar(s[i]) ELSE s[i]]

NameStems ==
    { <<"c","o","v","e","r">>,
      <<"c","o","p","y","r","i","g","h","t">>,
      <<"d","e","d","i","c","a","t","i","o","n">>,
      <<"a","c","k","n","o","w","l","e","d","g","m","e","n","t","s">>,
      <<"t","i","t","l","e","p","a","g","e">>,
      <<"t","o","c">>,
      <<"c","o","n","t","e","n","t","s">>,
      <<"c","h","a","p","t","e","r","0","5">>,
      <<"p","a","r","t","1">>,
      <<"e","p","i","l","o","g","u","e">> }

NamePrefixes == { <<>>, <<"O","E","B","P","S","/">>, <<"T","e","x","t","/">> }

dot_xhtml == <<".","x","h","t","m","l">>

ItemNames ==
    { prefix \o spelled \o dot_xhtml :
        prefix \in NamePrefixes,
        spelled \in UNION { {stem, Upper(stem), Capitalize(stem)} :
                              stem \in NameStems } }

JunkFiles ==
    { File("book.epub", <<Doc(name, <<Chapter1>>, 1600)>>, Anonymous) :
        name \in ItemNames }

JunkUpload ==
    /\ uploaded_file = NoFile
    /\ current_file_name = ""
    /\ Upload(JunkFiles, {NoFail})

JunkSpec == Init /\ [][JunkUpload]_vars

(***************************************************************************)
(* The title extractor alone: one upload of an archive of a single         *)
(* document item, with or without a heading, an element of class           *)
(* "chapter-title" and a short first line.                                 *)
(***************************************************************************)
Prologue == <<"P","r","o","l","o","g","u","e">>
ChapterOne == <<"C","h","a","p","t","e","r"," ","O","n","e">>
OnceUpon == <<"O","n","c","e"," ","u","p","o","n">>
LongHeading == [i \in 1..(TitleMax + 5) |-> IF i % 6 = 0 THEN " " ELSE "h"]
LongLine == [i \in 1..TitleMax |-> IF i % 6 = 0 THEN " " ELSE "w"]

TitleHeadings ==
    { <<>>, <<Prologue>>, <<<<" ">> \o Prologue \o <<"\n">>, ChapterOne>>,
      <<LongHeading>> }
TitleClassed == { <<>>, <<ChapterOne>>, <<<<"I","I">>>> }
TitleFirstLines == { OnceUpon, LongLine }
TitleNames == { ch1_xhtml, <<"O","E","B","P","S","/">> \o ch2_xhtml }

TitleFiles ==
    { File("book.epub",
           <<DocT(name, headings, classed, first_line, len, 7)>>, Anonymous) :
        name \in TitleNames, headings \in TitleHeadings,
        classed \in TitleClassed, first_line \in TitleFirstLines,
        len \in {200, 1600} }

TitleUpload ==
    /\ uploaded_file = NoFile
    /\ current_file_name = ""
    /\ Upload(TitleFiles, {NoFail})

TitleSpec == Init /\ [][TitleUpload]_vars

(***************************************************************************)
(* Properties of the segmenter (checked under SegSpec).                    *)
(***************************************************************************)
\* the last call of parse_epub_to_pages returned through its normal return
ParsedOk == last_parse.fail.at \in {"none", "cover"}

\* C1: the emitted pages' ids are exactly 1..N without gaps or repeats, and
\* the k-th page of the list has id k.
C1_PageIdsArePositions ==
    /\ \A k \in 1..Len(pages) : pages[k].id = k
    /\ {pages[k].id : k \in 1..Len(pages)} = 1..Len(pages)
    /\ \A k \in 1..Len(last_parse.ret.pages) : last_parse.ret.pages[k].id = k

\* a parse that emitted pages of several items, some of several chunks
C1_Witness ==
    /\ ParsedOk
    /\ Len(pages) >= 4
    /\ Len(chapter_map) >= 2
    /\ pages[4].id = 4

\* the positions of the items that are neither junk nor below the minimum
\* length, in archive order
RECURSIVE KeptItems(_, _)
KeptItems(items, k) ==
    IF k > Len(items) THEN <<>>
    ELSE IF /\ items[k].type = "document"
            /\ ~junk_pattern(items[k].name)
            /\ items[k].len >= MinTextLen
    THEN <<k>> \o KeptItems(items, k + 1)
    ELSE KeptItems(items, k + 1)

\* the chapter runs: maximal sequences of consecutive kept items that share
\* their detected title
RECURSIVE RunsOf(_, _, _)
RunsOf(items, kept, runs) ==
    IF kept = <<>> THEN runs
    ELSE LET k == Head(kept)
             t == extract_title(items[k])
         IN RunsOf(items, Tail(kept),
              IF runs # <<>> /\ runs[Len(runs)].title = t
              THEN [runs EXCEPT ![Len(runs)].members = Append(@, k)]
              ELSE Append(runs, [title |-> t, members |-> <<k>>]))

ExpectedRuns(items) == RunsOf(items, KeptItems(items, 1), <<>>)

\* the cleaned texts of the items of a run, concatenated
RunText(items, r) ==
    TConcat([i \in 1..Len(r.members) |->
                <<Piece(r.members[i], 0, items[r.members[i]].len)>>])

\* the pages from the start page of entry j up to the next entry
PagesOfEntry(ps, cmap, j) ==
    SubSeq(ps, cmap[j].start_page,
           IF j < Len(cmap) THEN cmap[j + 1].start_page - 1 ELSE Len(ps))

PageContents(ps) == [i \in 1..Len(ps) |-> ps[i].content]

\* C2: for every chapter run, the contents of the run's pages, concatenated
\* in id order, are exactly the concatenated cleaned texts of the run's
\* items; junk items and items shorter than 200 characters give no page and
\* no chapter entry.
C2_RunsReproduceText ==
    ParsedOk =>
        LET items == last_parse.file.items
            runs == ExpectedRuns(items)
        IN /\ Len(chapter_map) = Len(runs)
           /\ \A j \in 1..Len(runs) :
                LET ps == PagesOfEntry(pages, chapter_map, j)
                IN /\ chapter_map[j].title = runs[j].title
                   /\ ps # <<>>
                   /\ \A i \in 1..Len(ps) : ps[i].chapter = runs[j].title
                   /\ TConcat(PageContents(ps)) = RunText(items, runs[j])
           /\ TLen(TConcat(PageContents(pages)))
                = TLen(TConcat([j \in 1..Len(runs) |-> RunText(items, runs[j])]))

\* a junk cover item, a 2000-character "Chapter 1" item of two pages and
\* an empty "Chapter 2" item that is below the minimum length
C2_Witness ==
    /\ ParsedOk
    /\ last_parse.file.items = <<Doc(cover_xhtml, <<CoverHeading>>, 2000),
                                 Doc(ch1_xhtml, <<Chapter1>>, 2000),
                                 Doc(ch2_xhtml, <<Chapter2>>, 0)>>
    /\ Len(pages) = 2
    /\ pages[1].chapter = Chapter1 /\ pages[2].chapter = Chapter1
    /\ chapter_map = <<[title |-> Chapter1, start_page |-> 1]>>

\* C3: the chapter index is strictly increasing in start_page.
C3_StartPagesIncrease ==
    \A j \in 2..Len(chapter_map) :
        chapter_map[j].start_page > chapter_map[j - 1].start_page

\* an index of three entries, built next to filtered items
C3_Witness ==
    /\ ParsedOk
    /\ Len(chapter_map) = 3
    /\ chapter_map[3].start_page > 3

(***************************************************************************)
(* Properties of the range resolver and of the session (checked under      *)
(* Spec).                                                                  *)
(***************************************************************************)
\* a step in which the user changed a chapter selectbox of the file on screen
DropdownStep ==
    /\ uploaded_file' = uploaded_file
    /\ uploaded_file # NoFile
    /\ pages # <<>>
    /\ pages' = pages
    /\ <<start_chapter_select', end_chapter_select'>>
           # <<start_chapter_select, end_chapter_select>>

\* C4: resolving a chapter pair sets the range start to the start page of
\* the selected start chapter and the range end to the last page of the
\* selected end chapter (the total page count for the last chapter of the
\* index, otherwise the next chapter's start page minus one; an end chapter
\* before the start chapter counts as the start chapter), for every chapter
\* index, also one in which a title occurs in several entries.
C4_ResolvesSelectedChapters ==
    [][ (/\ DropdownStep
         /\ start_chapter_select'.pick > 0
         /\ end_chapter_select'.pick > 0)
        => LET sp == start_chapter_select'.pick
               ep == Max(sp, end_chapter_select'.pick)
           IN page_slider' =
                <<chapter_map[sp].start_page,
                  IF ep = Len(chapter_map) THEN Len(pages)
                  ELSE chapter_map[ep + 1].start_page - 1>> ]_vars

\* C5: on a non-empty page list the selection (start, end) satisfies
\* 1 <= start <= end <= total pages after any sequence of loads, dropdown
\* changes and slider changes, in both variants of the resolver.
C5_RangeValid ==
    (pages # <<>> /\ page_slider # NoSlider) =>
        /\ 1 <= page_slider[1]
        /\ page_slider[1] <= page_slider[2]
        /\ page_slider[2] <= Len(pages)

\* src/app2.py (no end_page guard): the end chapter selected lies before the
\* start chapter and the range is the start chapter alone
C5_Witness ==
    /\ variant = "app2"
    /\ uploaded_file # NoFile
    /\ Len(chapter_map) >= 2
    /\ start_chapter_select.pick = 2
    /\ end_chapter_select.pick = 1
    /\ chapter_map[1].title # chapter_map[2].title
    /\ start_chapter_select.title = chapter_map[2].title
    /\ end_chapter_select.title = chapter_map[1].title
    /\ page_slider[1] = chapter_map[2].start_page
    /\ page_slider[2] >= page_slider[1]
    /\ page_slider[2] = chapter_end_page(chapter_map, Len(pages), 2)

\* C6: a result on screen was computed from the pages of the range that is
\* selected now: every change of the slider or of a chapter selectbox
\* discards the result.
C6_ResultMatchesSelection ==
    (/\ uploaded_file # NoFile
     /\ pages # <<>>
     /\ run.pc = "idle"
     /\ analysis_result # NoneResult)
    => analysis_result.sel = page_slider

(***************************************************************************)
(* Properties of the orchestrator (checked under OrchSpec).                *)
(***************************************************************************)
\* the chapter titles of a page list, each once, in order of first occurrence
RECURSIVE FirstTitles(_, _)
FirstTitles(ps, seen) ==
    IF ps = <<>> THEN seen
    ELSE FirstTitles(Tail(ps),
                     IF InList(seen, Head(ps).chapter) THEN seen
                     ELSE Append(seen, Head(ps).chapter))

\* the contents of the pages of chapter t, in page order
ContentsOf(ps, t) == PageContents(SelectSeq(ps, LAMBDA q : q.chapter = t))

SelectedPages(sel) == SubSeq(pages, sel[1], sel[2])

SectionTitles(text) == [i \in 1..Len(text) |-> text[i].title]

\* C7: a failed request becomes an "[Error: ...]" section in the place of its
\* chapter and the remaining groups are still requested: the report holds
\* exactly one section per chapter group, in group order, for every pattern
\* of successes and failures.
C7_OneSectionPerGroup ==
    /\ run.pc = "loop" =>
         /\ Len(run.full) = run.idx - 1
         /\ \A i \in 1..Len(run.full) :
              /\ run.full[i].of = i
              /\ run.full[i].title = run.groups[i].title
              /\ run.full[i].body \in {"completion", "[Error]"}
    /\ LoopDone =>
         /\ Len(requests) = Len(run.groups)
         /\ SectionTitles(run.full) = FirstTitles(SelectedPages(run.sel), <<>>)
    /\ analysis_result # NoneResult =>
         /\ SectionTitles(analysis_result.text)
              = FirstTitles(SelectedPages(analysis_result.sel), <<>>)
         /\ \A i \in 1..Len(analysis_result.text) :
              analysis_result.text[i].of = i

\* one failure between two successes: two well-formed sections and one error
\* section, in chapter order
C7_Witness ==
    /\ analysis_result # NoneResult
    /\ Len(analysis_result.text) = 3
    /\ analysis_result.text[1].body = "completion"
    /\ analysis_result.text[2].body = "[Error]"
    /\ analysis_result.text[3].body = "completion"
    /\ SectionTitles(analysis_result.text) = <<Chapter2, Chapter1, Section>>

\* the requests so far are those of the first groups, one per chapter title
\* in order of first occurrence, sent one after another, and the sections of
\* the report follow the same order
C8_Sequential ==
    run.pc = "loop" =>
        LET titles == FirstTitles(SelectedPages(run.sel), <<>>)
        IN /\ Cardinality(in_flight) <= 1
           /\ Len(requests) = (run.idx - 1) + Cardinality(in_flight)
           /\ Len(requests) <= Len(titles)
           /\ LoopDone => Len(requests) = Len(titles)
           /\ \A i \in 1..Len(requests) :
                /\ requests[i].idx = i
                /\ requests[i].chap_title = titles[i]
           /\ \A i \in 1..Len(run.full) : run.full[i].title = titles[i]

C9_FailureYieldsEmpty ==
    last_parse.fail.at \in {"read", "item"} =>
        /\ ~last_parse.raised
        /\ last_parse.ret.pages = <<>>
        /\ last_parse.ret.chapter_map = <<>>
        /\ last_parse.ret.title = "Unknown"
        /\ last_parse.ret.author = "Unknown"
        /\ last_parse.ret.cover = 0
        /\ pages = <<>>
        /\ chapter_map = <<>>
        /\ book_meta = [title |-> "Unknown", author |-> "Unknown"]

\* the exception came after pages of two chapters had been accumulated
C9_Witness ==
    /\ last_parse.fail.at = "item"
    /\ Len(last_parse.partial) >= 2
    /\ last_parse.partial[1].chapter # last_parse.partial[Len(last_parse.partial)].chapter
    /\ pages = <<>>

\* C10: the temporary file is removed on every exit path of
\* parse_epub_to_pages, also when writing the uploaded bytes fails: no
\* temporary file is left when the operation has ended.
C10_NoTmpFileLeft == tmp_files = 0

(***************************************************************************)
(* Totals over the emitted pages (checked under SegSpec).                  *)
(***************************************************************************)
\* sum of len(p['content']) over the pages
RECURSIVE total_chars(_)
total_chars(page_list) ==
    IF page_list = <<>> THEN 0
    ELSE TLen(Head(page_list).content) + total_chars(Tail(page_list))

\* characters and words of the cleaned texts of the items at positions ks
RECURSIVE ItemsChars(_, _)
ItemsChars(items, ks) ==
    IF ks = <<>> THEN 0
    ELSE TLen(get_text(items[Head(ks)], Head(ks))) + ItemsChars(items, Tail(ks))

RECURSIVE ItemsWords(_, _)
ItemsWords(items, ks) ==
    IF ks = <<>> THEN 0
    ELSE split_len(get_text(items[Head(ks)], Head(ks)), items, TRUE)
         + ItemsWords(items, Tail(ks))

\* the character total of the pages is that of the kept items' texts
CharsPreserved ==
    ParsedOk =>
        total_chars(pages)
            = ItemsChars(last_parse.file.items, KeptItems(last_parse.file.items, 1))

\* C11: after a parse, the total character count and the total word count
\* over the emitted pages (words counted per page by whitespace splitting
\* and summed) equal the character and word totals of the cleaned texts of
\* the items that are neither junk nor below the minimum length.
C11_CountsPreserved ==
    ParsedOk =>
        LET items == last_parse.file.items
            kept == KeptItems(items, 1)
        IN /\ total_chars(pages) = ItemsChars(items, kept)
           /\ total_words(pages, items) = ItemsWords(items, kept)

(***************************************************************************)
(* The junk filter (checked under JunkSpec).                               *)
(***************************************************************************)
\* the exclusion vocabulary for front and back matter: cover, copyright,
\* dedication, acknowledgment variants, title, table of contents, contents
ExclusionVocabulary ==
    JunkWords \cup { <<"t","i","t","l","e">>, <<"t","o","c">>,
                     <<"c","o","n","t","e","n","t","s">> }

InVocabulary(name) ==
    \E w \in ExclusionVocabulary : Contains(Lower(name), w)

\* no page holds text of the k-th item
Excluded(k) ==
    \A i \in 1..Len(pages) :
        \A j \in 1..Len(pages[i].content) : pages[i].content[j].src # k

titlepage_xhtml == <<"t","i","t","l","e","p","a","g","e">> \o dot_xhtml
chapter05_xhtml == <<"c","h","a","p","t","e","r","0","5">> \o dot_xhtml

\* C12: a document item is excluded from segmentation exactly when its name
\* contains, case-insensitively, a word of the exclusion vocabulary for
\* front/back matter; 'titlepage.xhtml' is excluded, 'chapter05.xhtml' is not.
C12_JunkFilterExcludes ==
    ParsedOk =>
        \A k \in 1..Len(last_parse.file.items) :
            LET item == last_parse.file.items[k] IN
            (item.type = "document" /\ item.len >= MinTextLen) =>
                /\ Excluded(k) <=> InVocabulary(item.name)
                /\ item.name = titlepage_xhtml => Excluded(k)
                /\ item.name = chapter05_xhtml => ~Excluded(k)

(***************************************************************************)
(* The title extractor (checked under TitleSpec).                          *)
(***************************************************************************)
\* the part of a name after its last "/"
RECURSIVE LastSegment(_)
LastSegment(name) ==
    IF \E i \in 1..Len(name) : name[i] = "/"
    THEN LastSegment(Tail(name)) ELSE name

Cut(t, n) == SubSeq(t, 1, Min(n, Len(t)))

\* the rule of the four that decides the title of an item
TitleRule(item) ==
    IF item.headings # <<>> THEN 1
    ELSE IF /\ item.classed # <<>>
            /\ Len(Strip(item.classed[1])) > 3
            /\ Len(Strip(item.classed[1])) < TitleMax
    THEN 2
    ELSE IF item.first_line # <<>> /\ Len(item.first_line) < 50 THEN 3
    ELSE 4

\* the title of the only item of the archive, as the pages carry it
TitleGiven == pages[1].chapter

\* C13: the title is at most 60 characters long and is chosen by the first
\* rule that matches: (1) the first h1-h3 element cut to 60 characters,
\* (2) the first element of class title/chapter/head when its trimmed length
\* is strictly between 3 and 60, (3) the first non-blank line when under 50
\* characters, (4) a marker combined with the last path segment of the
\* item's name.  A heading 'Prologue' beats a class element 'Chapter One'.
C13_TitleByPriority ==
    (ParsedOk /\ Len(last_parse.file.items) = 1 /\ pages # <<>>) =>
        LET item == last_parse.file.items[1]
            rule == TitleRule(item)
        IN /\ Len(TitleGiven) <= TitleMax
           /\ rule = 1 => TitleGiven = Cut(Strip(item.headings[1]), TitleMax)
           /\ rule = 2 => TitleGiven = Strip(item.classed[1])
           /\ rule = 3 => TitleGiven = item.first_line
           /\ rule = 4 => Contains(TitleGiven, LastSegment(item.name))
           /\ (item.headings = <<Prologue>> /\ item.classed = <<ChapterOne>>)
                 => TitleGiven = Prologue

\* the part of the claim about items that have a heading
HeadingTitle ==
    (ParsedOk /\ Len(last_parse.file.items) = 1 /\ pages # <<>>) =>
        LET item == last_parse.file.items[1]
        IN /\ Len(TitleGiven) <= TitleMax
           /\ item.headings # <<>>
                 => TitleGiven = Cut(Strip(item.headings[1]), TitleMax)
           /\ item.headings = <<>> => TitleGiven = Section

(***************************************************************************)
(* The two views of the selection (checked under Spec).                    *)
(***************************************************************************)
\* the page range of the chapters at entries sp..ep of the chapter index
RangeOfEntries(sp, ep) ==
    <<chapter_map[sp].start_page,
      IF ep = Len(chapter_map) THEN Len(pages)
      ELSE chapter_map[ep + 1].start_page - 1>>

\* C14: whenever the scope selectors are on screen and the selectboxes hold
\* titles of the current index, the page range held by the slider is the
\* resolution of that chapter-title pair (for some entries of the index that
\* carry those titles, an end chapter before the start chapter counting as
\* the start chapter).
C14_ViewsConsistent ==
    (/\ uploaded_file # NoFile
     /\ pages # <<>>
     /\ run.pc = "idle"
     /\ page_slider # NoSlider
     /\ start_chapter_select.pick > 0
     /\ end_chapter_select.pick > 0)
    => \E sp \in 1..Len(chapter_map), ep \in 1..Len(chapter_map) :
          /\ chapter_map[sp].title = start_chapter_select.title
          /\ chapter_map[ep].title = end_chapter_select.title
          /\ page_slider = RangeOfEntries(sp, Max(sp, ep))

(***************************************************************************)
(* Chapter index entries and title changes (checked under SegSpec).        *)
(***************************************************************************)
\* the positions of the page list at which the chapter title is not that of
\* the page before (position 1 included), in increasing order
RECURSIVE TitleChanges(_, _)
TitleChanges(ps, i) ==
    IF i > Len(ps) THEN <<>>
    ELSE IF i = 1 \/ ps[i].chapter # ps[i - 1].chapter
    THEN <<i>> \o TitleChanges(ps, i + 1)
    ELSE TitleChanges(ps, i + 1)

\* C15: the chapter index has exactly one entry for every page whose chapter
\* title differs from that of the page appended before it (and for the first
\* page), with that page's id as start_page: items of the same title that
\* follow each other share one entry, also across a junk or short item, and
\* a title that recurs after another title gets a new entry.
C15_EntriesAtTitleChanges ==
    ParsedOk =>
        LET at == TitleChanges(pages, 1)
        IN chapter_map = [j \in 1..Len(at) |->
                            [title |-> pages[at[j]].chapter,
                             start_page |-> pages[at[j]].id]]

\* two "Chapter 1" items with an empty item between them share one entry
C15_Witness ==
    /\ ParsedOk
    /\ last_parse.file.items = <<Doc(ch1_xhtml, <<Chapter1>>, 2000),
                                 Doc(ch2_xhtml, <<Chapter2>>, 0),
                                 Doc(ch1_xhtml, <<Chapter1>>, 2000)>>
    /\ Len(pages) = 4
    /\ chapter_map = <<[title |-> Chapter1, start_page |-> 1]>>

\* "Chapter 1" recurs after "Chapter 2" and gets a second entry
RecurringTitle ==
    /\ ParsedOk
    /\ last_parse.file.items = <<Doc(ch1_xhtml, <<Chapter1>>, 2000),
                                 Doc(ch2_xhtml, <<Chapter2>>, 200),
                                 Doc(ch1_xhtml, <<Chapter1>>, 2000)>>
    /\ chapter_map = <<[title |-> Chapter1, start_page |-> 1],
                       [title |-> Chapter2, start_page |-> 3],
                       [title |-> Chapter1, start_page |-> 4]>>

(***************************************************************************)
(* The session and the file in the uploader (checked under Spec).          *)
(***************************************************************************)
\* C16: after any sequence of uploads, the pages and the chapter index held
\* in the session are those of the file that is in the uploader now: what
\* segmenting that file gives.
C16_SessionOfCurrentFile ==
    (uploaded_file # NoFile /\ pages # <<>>) =>
        \E r \in {parse_epub_to_pages(variant, uploaded_file, NoFail)} :
            /\ pages = r.ret.pages
            /\ chapter_map = r.ret.chapter_map

\* the same, for a file whose name differs from the name seen before it
FreshNameLoaded ==
    [][ (/\ uploaded_file' # NoFile
         /\ uploaded_file'.name # current_file_name
         /\ pages' # <<>>)
        => \E r \in {parse_epub_to_pages(variant, uploaded_file', NoFail)} :
              /\ pages' = r.ret.pages
              /\ chapter_map' = r.ret.chapter_map
              /\ analysis_result' = NoneResult
              /\ page_slider' = default_slider(Len(pages')) ]_vars

(***************************************************************************)
(* A chapter pair that the index does not resolve (checked under Spec).    *)
(***************************************************************************)
\* C17: when a chapter selectbox changes and the start or the end title it
\* leaves in the session is not in the current chapter index,
\* update_slider_from_dropdowns does nothing: page_slider keeps its value
\* and no other session state is modified.
C17_UnresolvedIsNoOp ==
    [][ (/\ DropdownStep
         /\ \/ ~InList(chapter_titles(chapter_map), start_chapter_select'.title)
            \/ ~InList(chapter_titles(chapter_map), end_chapter_select'.title))
        => /\ page_slider' = page_slider
           /\ analysis_result' = analysis_result
           /\ chapter_map' = chapter_map
           /\ book_meta' = book_meta
           /\ book_cover' = book_cover
           /\ current_file_name' = current_file_name ]_vars

\* the start selectbox was set to a chapter of the new file while the end
\* selectbox still holds a title of the file before; the result computed for
\* the range on the slider is still on screen
C17_Witness ==
    /\ uploaded_file # NoFile
    /\ pages # <<>>
    /\ start_chapter_select.pick > 0
    /\ end_chapter_select.set
    /\ ~InList(chapter_titles(chapter_map), end_chapter_select.title)
    /\ analysis_result # NoneResult
    /\ analysis_result.sel = page_slider

====
